---- MODULE Spec2Model ----
(***************************************************************************)
(* Model of speedrun-rust-cli (src/main.rs): the `game` sub-command.       *)
(* The remote service's three responses are part of the state; the CLI     *)
(* reads them, deserializes the runs, joins the records with the category  *)
(* catalog, keeps the "per-game" records and prints one table per record.  *)
(* A Rust panic (unwrap/expect on None, panic!) ends the process: it is    *)
(* modelled as pc = "panic" with the panicking site in `panic`.            *)
(*                                                                         *)
(* Strings the program only copies are TLA+ strings.  Strings the program  *)
(* builds (the formatted time) are sequences of one-character strings.     *)
(* Option<T> is a sequence of length 0 (None) or 1 (Some).                 *)
(***************************************************************************)
EXTENDS Integers, Sequences, FiniteSets, TLC

VARIABLES pc, panic, search_resp, categories_resp, records_resp,
          names, game_name, records_endpoint_uri, category_endpoint_uri,
          categories, records, cursor, out

vars == <<pc, panic, search_resp, categories_resp, records_resp,
          names, game_name, records_endpoint_uri, category_endpoint_uri,
          categories, records, cursor, out>>

(***************************************************************************)
(* Bounds of the explored inputs.                                          *)
(***************************************************************************)
MaxLinks == 3
MaxPlayers == 2
MaxGames == 2
MaxRecords == 2
MaxRuns == 2

SeqsUpTo(S, n) == UNION {[1..k -> S] : k \in 0..n}

None == <<>>
Some(x) == <<x>>

Range(s) == {s[i] : i \in 1..Len(s)}

(***************************************************************************)
(* serde_json::Value, as far as the `videos` field is inspected.           *)
(*   container: kind "null" | "object" | "other"; links: Option<value>     *)
(*   links value: kind "array" | "other"; arr: elements                    *)
(*   element: uri: Option<[kind "string" | "other", s]>                    *)
(***************************************************************************)
ValueGet(v, key) ==
    IF v.kind = "object" THEN v[key] ELSE None

ValueIsNull(v) == v.kind = "null"

ValueAsStr(v) ==
    IF v.kind = "string" THEN Some(v.s) ELSE None

Ok(v) == [ok |-> TRUE, site |-> "", v |-> v]
Panic(site) == [ok |-> FALSE, site |-> site, v |-> <<>>]

\* lines 160-166: one link element to its URI; expect() panics on None
LinkUri(x) ==
    IF x.uri = None THEN Panic("failed to find uri")
    ELSE IF ValueAsStr(x.uri[1]) = None THEN Panic("Failed to convert to string")
    ELSE Ok(ValueAsStr(x.uri[1])[1])

\* a sequence of outcomes, evaluated in order: the first panic wins
Collect(outcomes) ==
    IF \E i \in 1..Len(outcomes) : ~outcomes[i].ok
    THEN LET first == CHOOSE i \in 1..Len(outcomes) :
                          /\ ~outcomes[i].ok
                          /\ \A j \in 1..(i-1) : outcomes[j].ok
         IN Panic(outcomes[first].site)
    ELSE Ok([i \in 1..Len(outcomes) |-> outcomes[i].v])

\* lines 156-172: the URIs under videos.links, or a panic
CollectVideos(videos) ==
    IF ~ValueIsNull(videos)
    THEN IF ValueGet(videos, "links") = None
         THEN Panic("videos.links unwrap")
         ELSE LET l == ValueGet(videos, "links")[1] IN
              IF l.kind = "array"
              THEN Collect([i \in 1..Len(l.arr) |-> LinkUri(l.arr[i])])
              ELSE Ok(<<>>)
    ELSE Ok(<<>>)

\* lines 174-180: a mutation that takes the first of two links
SelectVideoFirst(videos) ==
    IF Len(videos) = 2 THEN videos[1]
    ELSE IF Len(videos) = 1 THEN videos[1]
    ELSE ""

\* lines 174-180
SelectVideo(videos) ==
    IF Len(videos) = 2 THEN videos[2]
    ELSE IF Len(videos) = 1 THEN videos[1]
    ELSE ""

(***************************************************************************)
(* iso8601::duration.  A duration text is a sequence of tokens             *)
(* [u, n, f]: the designators "P" and "T", and components <n><u> with u in *)
(* Y, M, D, W, H, M, S; f is the millisecond fraction of a seconds token.  *)
(* The result is Duration::YMDHMS{..} or Duration::Weeks(n), or an error   *)
(* when the text does not follow P[nY][nM][nD][T[nH][nM][nS]] or PnW.      *)
(***************************************************************************)
Tok(u, n, f) == [u |-> u, n |-> n, f |-> f]

YMDHMS(y, mo, d, h, mi, s, ms) ==
    [tag |-> "YMDHMS", year |-> y, month |-> mo, day |-> d, hour |-> h,
     minute |-> mi, second |-> s, millisecond |-> ms, weeks |-> 0]

Weeks(w) ==
    [tag |-> "Weeks", year |-> 0, month |-> 0, day |-> 0, hour |-> 0,
     minute |-> 0, second |-> 0, millisecond |-> 0, weeks |-> w]

DateRank(u) == CASE u = "Y" -> 1 [] u = "M" -> 2 [] u = "D" -> 3 [] OTHER -> 0
TimeRank(u) == CASE u = "H" -> 1 [] u = "M" -> 2 [] u = "S" -> 3 [] OTHER -> 0

\* the ranks of the components of one part: all known, strictly increasing
InOrder(ranks) ==
    /\ \A i \in 1..Len(ranks) : ranks[i] > 0
    /\ \A i \in 1..Len(ranks) : \A j \in 1..Len(ranks) :
          i < j => ranks[i] < ranks[j]

Component(part, u) ==
    IF \E i \in 1..Len(part) : part[i].u = u
    THEN part[CHOOSE i \in 1..Len(part) : part[i].u = u]
    ELSE Tok(u, 0, 0)

ParseDuration(text) ==
    IF text = <<>> \/ text[1].u # "P" THEN [ok |-> FALSE, v |-> Weeks(0)]
    ELSE LET body == Tail(text) IN
         IF Len(body) = 1 /\ body[1].u = "W"
         THEN [ok |-> TRUE, v |-> Weeks(body[1].n)]
         ELSE LET hasT == \E i \in 1..Len(body) : body[i].u = "T"
                  t == IF hasT THEN CHOOSE i \in 1..Len(body) :
                                       /\ body[i].u = "T"
                                       /\ \A j \in 1..(i-1) : body[j].u # "T"
                       ELSE Len(body) + 1
                  date == SubSeq(body, 1, t - 1)
                  time == SubSeq(body, t + 1, Len(body))
              IN IF /\ InOrder([i \in 1..Len(date) |-> DateRank(date[i].u)])
                    /\ InOrder([i \in 1..Len(time) |-> TimeRank(time[i].u)])
                 THEN [ok |-> TRUE,
                       v |-> YMDHMS(Component(date, "Y").n, Component(date, "M").n,
                                    Component(date, "D").n, Component(time, "H").n,
                                    Component(time, "M").n, Component(time, "S").n,
                                    Component(time, "S").f)]
                 ELSE [ok |-> FALSE, v |-> Weeks(0)]

\* lines 182-189: a mutation that substitutes a zero duration on a parse error
RunTimeDefault(realtime) ==
    LET r == ParseDuration(realtime) IN
    IF r.ok THEN Ok(r.v) ELSE Ok(YMDHMS(0, 0, 0, 0, 0, 0, 0))

\* lines 182-189
RunTime(realtime) ==
    LET r == ParseDuration(realtime) IN
    IF r.ok THEN Ok(r.v) ELSE Panic("Error parsing duration")

(***************************************************************************)
(* Run::deserialize, lines 126-200.  A raw run object is                   *)
(* [place, run |-> [id, videos, times |-> [realtime], players]]; `place`   *)
(* is not a field of RunObj and is dropped.  weblink and submitted are     *)
(* copied and never read; they are left out.                               *)
(***************************************************************************)
DeserializeRun(obj) ==
    LET videos == CollectVideos(obj.run.videos) IN
    IF ~videos.ok THEN Panic(videos.site)
    ELSE LET video == SelectVideo(videos.v)
             time == RunTime(obj.run.times.realtime)
         IN IF ~time.ok THEN Panic(time.site)
            ELSE Ok([id |-> obj.run.id, video |-> video, time |-> time.v,
                     player_refs |-> obj.run.players])

\* Vec<Run> of one RecordCategory (line 49)
DeserializeRuns(objs) ==
    Collect([i \in 1..Len(objs) |-> DeserializeRun(objs[i])])

\* one RecordCategory, lines 44-50
DeserializeRecord(raw) ==
    LET runs == DeserializeRuns(raw.runs) IN
    IF ~runs.ok THEN Panic(runs.site)
    ELSE Ok([game |-> raw.game, category |-> raw.category, runs |-> runs.v])

\* Vec<RecordCategory>, line 104
DeserializeRecords(raws) ==
    Collect([i \in 1..Len(raws) |-> DeserializeRecord(raws[i])])

(***************************************************************************)
(* RecordCategory::fmt, lines 52-96.                                       *)
(***************************************************************************)
Digit(d) ==
    CASE d = 0 -> "0" [] d = 1 -> "1" [] d = 2 -> "2" [] d = 3 -> "3"
      [] d = 4 -> "4" [] d = 5 -> "5" [] d = 6 -> "6" [] d = 7 -> "7"
      [] d = 8 -> "8" [] d = 9 -> "9"

RECURSIVE ToDec(_)
ToDec(n) == IF n < 10 THEN <<Digit(n)>> ELSE ToDec(n \div 10) \o <<Digit(n % 10)>>

\* "{:02}"
Pad2(n) == IF n < 10 THEN <<"0">> \o ToDec(n) ELSE ToDec(n)

NoTimeProvided == <<"No time provided">>

\* lines 57-72
FmtTime(time) ==
    IF time.tag = "YMDHMS"
    THEN Pad2(time.hour) \o <<":">> \o Pad2(time.minute) \o <<":">>
         \o Pad2(time.second) \o <<":">> \o Pad2(time.millisecond)
    ELSE NoTimeProvided

\* lines 74-90: a mutation that credits the last listed player
FmtPlayerLast(player_refs) ==
    IF player_refs = <<>> THEN Panic("player_refs.first unwrap")
    ELSE LET last == player_refs[Len(player_refs)] IN
         IF last.rel = "user"
         THEN IF last.id = None THEN Panic("id unwrap") ELSE Ok(last.id[1])
         ELSE IF last.name = None THEN Panic("name unwrap") ELSE Ok(last.name[1])

\* lines 74-90
FmtPlayer(player_refs) ==
    IF player_refs = <<>> THEN Panic("player_refs.first unwrap")
    ELSE LET first == player_refs[1] IN
         IF first.rel = "user"
         THEN IF first.id = None THEN Panic("id unwrap") ELSE Ok(first.id[1])
         ELSE IF first.name = None THEN Panic("name unwrap") ELSE Ok(first.name[1])

\* line 56, 92: a mutation that numbers the rows from 1
FmtRowOneBased(i, run) ==
    LET player == FmtPlayer(run.player_refs) IN
    IF ~player.ok THEN Panic(player.site)
    ELSE Ok([place |-> i + 1, id |-> run.id, player |-> player.v,
             video |-> run.video, time |-> FmtTime(run.time)])

\* lines 56-93, one iteration; i is the enumerate() index
FmtRow(i, run) ==
    LET player == FmtPlayer(run.player_refs) IN
    IF ~player.ok THEN Panic(player.site)
    ELSE Ok([place |-> i, id |-> run.id, player |-> player.v,
             video |-> run.video, time |-> FmtTime(run.time)])

TableHeader == <<"Place", "Run ID", "Player ID", "Run Video", "Time">>

\* lines 53-95: the rows of the table, or the panic of the first bad run
Fmt(record) ==
    Collect([k \in 1..Len(record.runs) |-> FmtRow(k - 1, record.runs[k])])

(***************************************************************************)
(* get_categories, lines 209-234: the catalog keyed by category id.        *)
(***************************************************************************)
HashInsert(h, k, v) ==
    [x \in (DOMAIN h) \cup {k} |-> IF x = k THEN v ELSE h[x]]

RECURSIVE InsertAll(_, _)
InsertAll(hash, cats) ==
    IF cats = <<>> THEN hash
    ELSE InsertAll(HashInsert(hash, Head(cats).id,
                              [id |-> Head(cats).id, name |-> Head(cats).name,
                               type |-> Head(cats).type]),
                   Tail(cats))

\* lines 220-233
BuildCatalog(cats) == InsertAll(<<>>, cats)

\* HashMap::get
HashGet(h, k) == IF k \in DOMAIN h THEN Some(h[k]) ELSE None

(***************************************************************************)
(* main, lines 277-340.                                                    *)
(***************************************************************************)
\* Iterator::find over the links of a game, lines 301-314
FindLink(links, rel) ==
    IF \E i \in 1..Len(links) : links[i].rel = rel
    THEN Some(links[CHOOSE i \in 1..Len(links) :
                        /\ links[i].rel = rel
                        /\ \A j \in 1..(i-1) : links[j].rel # rel])
    ELSE None

\* lines 318-321: a mutation that drops only the per-level records
RetainKeepNotPerLevel(cats, record) ==
    IF HashGet(cats, record.category) = None THEN Panic("retain: categories.get unwrap")
    ELSE Ok(HashGet(cats, record.category)[1].type # "per-level")

\* lines 318-321: a mutation that skips a record of an unknown category
RetainKeepSkipUnknown(cats, record) ==
    IF HashGet(cats, record.category) = None THEN Ok(FALSE)
    ELSE Ok(HashGet(cats, record.category)[1].type = "per-game")

\* lines 318-321: the closure given to Vec::retain
RetainKeep(cats, record) ==
    IF HashGet(cats, record.category) = None THEN Panic("retain: categories.get unwrap")
    ELSE Ok(HashGet(cats, record.category)[1].type = "per-game")

Line(kind, text) == [kind |-> kind, text |-> text, rows |-> <<>>]
Table(rows) == [kind |-> "table", text |-> "", rows |-> rows]

Abort(site) ==
    /\ pc' = "panic"
    /\ panic' = site

\* lines 280-289
GetGameResult ==
    /\ pc = "get_game_result"
    /\ IF search_resp = <<>>
       THEN /\ Abort("No games came back")
            /\ UNCHANGED names
       ELSE /\ names' = [i \in 1..Len(search_resp) |-> search_resp[i].name]
            /\ pc' = "select"
            /\ UNCHANGED panic
    /\ UNCHANGED <<search_resp, categories_resp, records_resp, game_name,
                   records_endpoint_uri, category_endpoint_uri, categories,
                   records, cursor, out>>

\* lines 291-297: the user picks one of the offered names
SelectGame ==
    /\ pc = "select"
    /\ \E i \in 0..(Len(names) - 1) :
          /\ game_name' = Some(i)
          /\ out' = out \o <<Line("selected", search_resp[i + 1].name)>>
    /\ pc' = "endpoints"
    /\ UNCHANGED <<panic, search_resp, categories_resp, records_resp, names,
                   records_endpoint_uri, category_endpoint_uri, categories,
                   records, cursor>>

\* lines 299-314
ResolveEndpoints ==
    /\ pc = "endpoints"
    /\ LET selected_game == search_resp[game_name[1] + 1]
           rec == FindLink(selected_game.links, "records")
           cat == FindLink(selected_game.links, "categories")
       IN IF rec = None
          THEN /\ Abort("records link unwrap")
               /\ UNCHANGED <<records_endpoint_uri, category_endpoint_uri>>
          ELSE IF cat = None
          THEN /\ Abort("categories link unwrap")
               /\ records_endpoint_uri' = Some(rec[1].uri)
               /\ UNCHANGED category_endpoint_uri
          ELSE /\ records_endpoint_uri' = Some(rec[1].uri)
               /\ category_endpoint_uri' = Some(cat[1].uri)
               /\ pc' = "get_categories"
               /\ UNCHANGED panic
    /\ UNCHANGED <<search_resp, categories_resp, records_resp, names, game_name,
                   categories, records, cursor, out>>

\* line 316
GetCategories ==
    /\ pc = "get_categories"
    /\ categories' = BuildCatalog(categories_resp)
    /\ pc' = "get_game_records"
    /\ UNCHANGED <<panic, search_resp, categories_resp, records_resp, names,
                   game_name, records_endpoint_uri, category_endpoint_uri,
                   records, cursor, out>>

\* line 317
GetGameRecords ==
    /\ pc = "get_game_records"
    /\ LET r == DeserializeRecords(records_resp) IN
       IF r.ok
       THEN /\ records' = r.v
            /\ pc' = "retain"
            /\ UNCHANGED panic
       ELSE /\ Abort(r.site)
            /\ UNCHANGED records
    /\ UNCHANGED <<search_resp, categories_resp, records_resp, names, game_name,
                   records_endpoint_uri, category_endpoint_uri, categories,
                   cursor, out>>

\* lines 318-321
Retain ==
    /\ pc = "retain"
    /\ LET keep == Collect([i \in 1..Len(records) |-> RetainKeep(categories, records[i])]) IN
       IF keep.ok
       THEN /\ records' = SelectSeq(records, LAMBDA r : RetainKeep(categories, r).v)
            /\ pc' = "runs_for"
            /\ UNCHANGED panic
       ELSE /\ Abort(keep.site)
            /\ UNCHANGED records
    /\ UNCHANGED <<search_resp, categories_resp, records_resp, names, game_name,
                   records_endpoint_uri, category_endpoint_uri, categories,
                   cursor, out>>

\* line 323
PrintRunsFor ==
    /\ pc = "runs_for"
    /\ out' = out \o <<Line("runs_for", search_resp[game_name[1] + 1].name)>>
    /\ cursor' = 1
    /\ pc' = "print"
    /\ UNCHANGED <<panic, search_resp, categories_resp, records_resp, names,
                   game_name, records_endpoint_uri, category_endpoint_uri,
                   categories, records>>

\* lines 324-328, one iteration of the loop
PrintCategory ==
    /\ pc = "print"
    /\ cursor <= Len(records)
    /\ LET category == records[cursor]
           cat == HashGet(categories, category.category)
       IN IF cat = None
          THEN /\ Abort("print: categories.get unwrap")
               /\ UNCHANGED <<out, cursor>>
          ELSE LET t == Fmt(category) IN
               IF t.ok
               THEN /\ out' = out \o <<Line("category", cat[1].name), Table(t.v)>>
                    /\ cursor' = cursor + 1
                    /\ UNCHANGED <<pc, panic>>
               ELSE /\ out' = out \o <<Line("category", cat[1].name)>>
                    /\ Abort(t.site)
                    /\ UNCHANGED cursor
    /\ UNCHANGED <<search_resp, categories_resp, records_resp, names, game_name,
                   records_endpoint_uri, category_endpoint_uri, categories,
                   records>>

\* line 339
Finish ==
    /\ pc = "print"
    /\ cursor > Len(records)
    /\ pc' = "done"
    /\ UNCHANGED <<panic, search_resp, categories_resp, records_resp, names,
                   game_name, records_endpoint_uri, category_endpoint_uri,
                   categories, records, cursor, out>>

Next ==
    \/ GetGameResult
    \/ SelectGame
    \/ ResolveEndpoints
    \/ GetCategories
    \/ GetGameRecords
    \/ Retain
    \/ PrintRunsFor
    \/ PrintCategory
    \/ Finish

(***************************************************************************)
(* The responses of the service.                                           *)
(***************************************************************************)
Link(rel, i) == [rel |-> rel, uri |-> <<rel, i>>]

GameName(i) ==
    CASE i = 1 -> "A" [] i = 2 -> "B" [] i = 3 -> "C" [] OTHER -> "D"

Rels == {"records", "categories"}

LinkLists ==
    {[i \in 1..Len(rs) |-> Link(rs[i], i)] : rs \in SeqsUpTo(Rels, 2)}

GoodLinks == <<Link("records", 1), Link("categories", 2)>>

SearchResps ==
    {[i \in 1..Len(ll) |-> [name |-> GameName(i), links |-> ll[i]]] :
        ll \in SeqsUpTo(LinkLists, MaxGames)}

OneGame == <<[name |-> GameName(1), links |-> GoodLinks]>>

CatIds == {"c1", "c2"}
CatTypes == {"per-game", "per-level", "misc"}
CatName(id) == IF id = "c1" THEN "Any%" ELSE "100%"

CatEntries == {[id |-> id, name |-> CatName(id), type |-> t] : id \in CatIds, t \in CatTypes}

\* the categories of a game, each id listed once
CatLists ==
    {cs \in SeqsUpTo(CatEntries, Cardinality(CatIds)) :
        \A i \in 1..Len(cs) : \A j \in 1..Len(cs) : i # j => cs[i].id # cs[j].id}

OneCategory == <<[id |-> "c1", name |-> "Any%", type |-> "per-game"]>>

\* the `videos` values
Uris == {"u1", "u2"}
StrUri(u) == [uri |-> Some([kind |-> "string", s |-> u])]
LinkElems ==
    {StrUri(u) : u \in Uris}
        \cup {[uri |-> Some([kind |-> "other", s |-> ""])], [uri |-> None]}

NullVideos == [kind |-> "null", links |-> None]
LinksVideos(arr) == [kind |-> "object", links |-> Some([kind |-> "array", arr |-> arr])]

Containers ==
    {NullVideos,
     [kind |-> "other", links |-> None],
     [kind |-> "object", links |-> None],
     [kind |-> "object", links |-> Some([kind |-> "other", arr |-> <<>>])]}
        \cup {LinksVideos(arr) : arr \in SeqsUpTo(LinkElems, MaxLinks)}

\* the `times.realtime` texts
P == Tok("P", 0, 0)
T == Tok("T", 0, 0)
PT1H2M3_004S == <<P, T, Tok("H", 1, 0), Tok("M", 2, 0), Tok("S", 3, 4)>>
PT12M40_5S == <<P, T, Tok("M", 12, 0), Tok("S", 40, 500)>>
P1Y == <<P, Tok("Y", 1, 0)>>
P1Y2M3D == <<P, Tok("Y", 1, 0), Tok("M", 2, 0), Tok("D", 3, 0)>>
P1DT1H == <<P, Tok("D", 1, 0), T, Tok("H", 1, 0)>>
P2W == <<P, Tok("W", 2, 0)>>
Empty == <<>>
NoDesignator == <<Tok("H", 1, 0), Tok("M", 2, 0)>>

Durations == {PT1H2M3_004S, PT12M40_5S, P1Y, P1Y2M3D, P1DT1H, P2W, Empty, NoDesignator}

\* the `players` elements
PlayerRefs == [rel : {"user", "guest"}, id : {None, Some("p1")}, name : {None, Some("n1")}]

RunObj(place, id, videos, realtime, players) ==
    [place |-> place,
     run |-> [id |-> id, videos |-> videos, times |-> [realtime |-> realtime],
              players |-> players]]

User == [rel |-> "user", id |-> Some("p1"), name |-> None]
Guest == [rel |-> "guest", id |-> None, name |-> Some("n1")]

\* every videos value with a few player lists, and every player list with a
\* few videos values; every realtime text with both
RunObjs ==
    {RunObj(1, "r1", v, d, ps) :
        v \in Containers, d \in Durations, ps \in {<<>>, <<User>>, <<Guest, User>>}}
    \cup
    {RunObj(1, "r1", v, d, ps) :
        v \in {NullVideos, LinksVideos(<<StrUri("u1"), StrUri("u2")>>)},
        d \in Durations, ps \in SeqsUpTo(PlayerRefs, MaxPlayers)}

\* two tied runs, a run without players, a run with an unparsable time
BoardRuns ==
    {RunObj(1, "r1", NullVideos, PT1H2M3_004S, <<User>>),
     RunObj(1, "r2", LinksVideos(<<StrUri("u1")>>), PT12M40_5S, <<Guest>>),
     RunObj(3, "r3", NullVideos, PT1H2M3_004S, <<>>),
     RunObj(4, "r4", NullVideos, NoDesignator, <<User>>)}

Injective(s) == \A i \in 1..Len(s) : \A j \in 1..Len(s) : i # j => s[i] # s[j]

RunLists == {rs \in SeqsUpTo(BoardRuns, MaxRuns) : Injective(rs)}

RecordCats == CatIds \cup {"c3"}

\* the categories of the records of a response, one record per category
CatSeqs == {cs \in SeqsUpTo(RecordCats, MaxRecords) : Injective(cs)}

\* a response lists a run once
RecordLists ==
    UNION {{[i \in 1..Len(cs) |-> [game |-> "g", category |-> cs[i], runs |-> rl[i]]] :
               rl \in {f \in [1..Len(cs) -> RunLists] :
                          \A i \in 1..Len(cs) : \A j \in 1..Len(cs) :
                              i # j => Range(f[i]) \cap Range(f[j]) = {}}} :
           cs \in CatSeqs}

InitLocals ==
    /\ pc = "get_game_result"
    /\ panic = ""
    /\ names = <<>>
    /\ game_name = None
    /\ records_endpoint_uri = None
    /\ category_endpoint_uri = None
    /\ categories = <<>>
    /\ records = <<>>
    /\ cursor = 0
    /\ out = <<>>

\* any catalog and any record list of one game
Init ==
    /\ search_resp = OneGame
    /\ categories_resp \in CatLists
    /\ records_resp \in RecordLists
    /\ InitLocals

\* any search result; one category with one run
InitGames ==
    /\ search_resp \in SearchResps
    /\ categories_resp = OneCategory
    /\ records_resp = <<[game |-> "g", category |-> "c1",
                         runs |-> <<RunObj(1, "r1", NullVideos, PT1H2M3_004S, <<User>>)>>]>>
    /\ InitLocals

\* any run, alone in one per-game category
InitRun ==
    /\ search_resp = OneGame
    /\ categories_resp = OneCategory
    /\ \E obj \in RunObjs :
          records_resp = <<[game |-> "g", category |-> "c1", runs |-> <<obj>>]>>
    /\ InitLocals

Spec == Init /\ [][Next]_vars
SpecGames == InitGames /\ [][Next]_vars
SpecRun == InitRun /\ [][Next]_vars

(***************************************************************************)
(* Properties.                                                             *)
(***************************************************************************)
\* every raw run object of the records response
RawRunObjs == UNION {Range(records_resp[i].runs) : i \in 1..Len(records_resp)}

\* the raw run object a normalized run or a table row was made from
RawOf(id) == CHOOSE obj \in RawRunObjs : obj.run.id = id

Runs == UNION {Range(records[i].runs) : i \in 1..Len(records)}

Tables == {i \in 1..Len(out) : out[i].kind = "table"}

NoLeaderboard == \A i \in 1..Len(out) : out[i].kind \notin {"category", "table"}

BeforeRecords == {"get_game_result", "select", "endpoints", "get_categories",
                  "get_game_records"}

IsLinkArray(c) == c.kind = "object" /\ c.links # None /\ c.links[1].kind = "array"

VideoSites == {"videos.links unwrap", "failed to find uri", "Failed to convert to string"}

\* C2: no shape of the video container makes the normalization of a run fail.
C2_VideoNeverFatal == panic \notin VideoSites

\* the field the first player reference must carry
Required(refs) == IF refs[1].rel = "user" THEN refs[1].id ELSE refs[1].name

\* C3: printing a record whose runs all list a player either panics, when
\* the first reference of some run lacks its id (rel "user") or its name
\* (any other rel), or prints for every run that id or name of the first
\* reference.
C3_FirstPlayerRef ==
    [][(pc = "print" /\ cursor <= Len(records)
          /\ \A j \in 1..Len(records[cursor].runs) :
                records[cursor].runs[j].player_refs # <<>>)
       => LET runs == records[cursor].runs IN
          IF \E j \in 1..Len(runs) : Required(runs[j].player_refs) = None
          THEN pc' = "panic" /\ Tables' = Tables
          ELSE /\ pc' = "print"
               /\ out'[Len(out')].kind = "table"
               /\ Len(out'[Len(out')].rows) = Len(runs)
               /\ \A j \in 1..Len(runs) :
                     out'[Len(out')].rows[j].player = Required(runs[j].player_refs)[1]]_vars

C3_Witness ==
    /\ pc = "done"
    /\ \E run \in Runs :
          /\ Len(run.player_refs) = 2
          /\ run.player_refs[1] = [rel |-> "user", id |-> Some("p1"), name |-> None]
          /\ run.player_refs[2] = [rel |-> "guest", id |-> None, name |-> Some("n1")]
          /\ \E t \in Tables : \E j \in 1..Len(out[t].rows) :
                out[t].rows[j].id = run.id /\ out[t].rows[j].player = "p1"

EmptyPlayers == \E obj \in RawRunObjs : obj.run.players = <<>>

\* C4: a run without player references fails the normalization of the
\* records, before any leaderboard is rendered.
C4_EmptyPlayersFatal ==
    EmptyPlayers => (pc \in BeforeRecords \cup {"panic"} /\ NoLeaderboard)

Retained ==
    \/ pc \in {"runs_for", "print", "done"}
    \/ pc = "panic" /\ cursor >= 1

Brief(category, runs) == [category |-> category, ids |-> [j \in 1..Len(runs) |-> runs[j].id]]

\* C5: when every record's category is in the catalog, the records kept are
\* exactly those of a "per-game" category, in input order, with their runs
\* in input order.
C5_PerGameFilter ==
    (Retained /\ \A i \in 1..Len(records_resp) : records_resp[i].category \in DOMAIN categories)
    => [i \in 1..Len(records) |-> Brief(records[i].category, records[i].runs)]
       = SelectSeq([i \in 1..Len(records_resp) |->
                       Brief(records_resp[i].category,
                             [j \in 1..Len(records_resp[i].runs) |-> records_resp[i].runs[j].run])],
                   LAMBDA b : categories[b.category].type = "per-game")

C5_Witness ==
    /\ pc = "done"
    /\ Len(records_resp) = 2
    /\ Len(records) = 1
    /\ categories[records_resp[1].category].type = "misc"
    /\ records[1].category = records_resp[2].category
    /\ Len(records[1].runs) = 2

UnknownCategory ==
    \E i \in 1..Len(records_resp) :
        records_resp[i].category \notin {categories_resp[j].id : j \in 1..Len(categories_resp)}

\* C6: when a record references a category the catalog lacks, the run of the
\* program never gets past the filter and prints no leaderboard.
C6_UnknownCategoryFatal ==
    UnknownCategory => (pc \in BeforeRecords \cup {"retain", "panic"} /\ NoLeaderboard)

C6_Witness ==
    /\ pc = "panic"
    /\ panic = "retain: categories.get unwrap"
    /\ Len(records_resp) = 2
    /\ records_resp[1].category \in DOMAIN categories
    /\ categories[records_resp[1].category].type = "per-game"
    /\ records_resp[1].runs # <<>>
    /\ records_resp[2].category \notin DOMAIN categories

HasDesignator(text) == text # <<>> /\ text[1].u = "P"

CalendarOnly(text) ==
    /\ HasDesignator(text)
    /\ Len(text) >= 2
    /\ \A i \in 2..Len(text) : text[i].u \in {"Y", "M", "D"}

\* C7: a printed run whose time has only calendar components shows
\* "No time provided".
C7_CalendarOnlyUnavailable ==
    \A t \in Tables : \A j \in 1..Len(out[t].rows) :
        CalendarOnly(RawOf(out[t].rows[j].id).run.times.realtime)
            => out[t].rows[j].time = NoTimeProvided

Malformed == \E obj \in RawRunObjs : ~HasDesignator(obj.run.times.realtime)

\* C8: when the time of a run is unparsable, no Run record is produced, the
\* program panics in the deserialization and prints no leaderboard.
C8_MalformedDurationFatal ==
    Malformed => (pc \in BeforeRecords \cup {"panic"} /\ records = <<>> /\ NoLeaderboard)

C8_Witness ==
    /\ pc = "panic"
    /\ panic = "Error parsing duration"
    /\ Len(records_resp) = 2
    /\ \A obj \in Range(records_resp[1].runs) : HasDesignator(obj.run.times.realtime)

\* C9: a game whose links lack the records or the categories relation is
\* not among the games offered for selection.
C9_UnusableGameNotOffered ==
    \A i \in 1..Len(names) :
        /\ FindLink(search_resp[i].links, "records") # None
        /\ FindLink(search_resp[i].links, "categories") # None

\* C10: the place of the k-th row (from 0) of every printed table is k.
C10_PlaceIsIndex ==
    \A t \in Tables : \A k \in 1..Len(out[t].rows) : out[t].rows[k].place = k - 1

C10_Witness ==
    \E t \in Tables :
        /\ Len(out[t].rows) = 2
        /\ RawOf(out[t].rows[1].id).place = RawOf(out[t].rows[2].id).place
        /\ out[t].rows[2].place = 1

====
